---- MODULE Spec2Model ----
(***************************************************************************)
(* Occupancy core of the HCP lattice store (src/src/lib.rs): the flat      *)
(* voxel array, the per-species index (SpeciesCache, tracking or counting) *)
(* and the operations move_particle and find_particle.                     *)
(*                                                                         *)
(* SpeciesID(i) is the integer i (an index into species_cache, from 0);    *)
(* Option<SpeciesID> is None or such an integer. Coordinate(c) is the      *)
(* integer c. ParticleID(a, b) is the pair <<a, b>>.                       *)
(***************************************************************************)
EXTENDS Integers, Sequences, FiniteSets, TLC

\* Bounds of the model.
MaxRow == 3
MaxCol == 2
MaxLayer == 1
MaxSpecies == 2

VARIABLES
    voxel_radius,   \* HCPLatticeSpace.voxel_radius
    size,           \* HCPLatticeSpace.size: [row, col, layer]
    voxels,         \* HCPLatticeSpace.voxels: Coordinates -> Option<SpeciesID>
    species_cache,  \* HCPLatticeSpace.species_cache: Vec<SpeciesCache>, from 0
    built,          \* the arguments new was called with to build the store
    call,           \* the last operation called and its arguments
    ret,            \* what that operation returned
    old,            \* voxels and species_cache as they were before that call
    prev            \* under SpecMoves, when the call before the last one was a
                    \* move_particle that returned Ok: that call and the store
                    \* before it

vars == <<voxel_radius, size, voxels, species_cache, built, call, ret, old, prev>>

\* HCPLatticeSize: the extents handed to new().
Sizes == [row : 0 .. MaxRow, col : 0 .. MaxCol, layer : 0 .. MaxLayer]

\* The voxel radii handed to new() (f64 values, here in whole units).
Radii == {1, 2, 5}

\* new(): let num_voxels = size.row * size.col * size.layer
num_voxels == size.row * size.col * size.layer

\* Option::None of Option<SpeciesID>.
None == -1

\* Indices of the voxel array; Coordinate(c) with c outside is out of range.
Coordinates == 0 .. (num_voxels - 1)

\* Coordinates handed to the operations: every index of the array and the
\* two coordinates that follow its end.
ArgCoordinates == 0 .. (num_voxels + 1)

\* Species(String): the name of the species with index id.
Names == <<"A", "Vacant", "B", "C", "D">>

\* The identity SpeciesCache::add gives the pair it pushes: ParticleID(0,0).
PlaceholderID == <<0, 0>>

\* The identity of the particle of species id that sits at coordinate c when
\* the store is set up: unique over the store, never the placeholder.
InitialID(id, c) == <<id + 1, c>>

\* Identities asked of find_particle: those of the set-up, the placeholder,
\* and one that no particle has.
ArgParticleIDs ==
    {InitialID(id, 0) : id \in 0 .. (MaxSpecies - 1)} \cup {PlaceholderID, <<0, 1>>}

----------------------------------------------------------------------------
\* TrackingType

Tracking(list) == [tag |-> "Tracking", list |-> list]

Count(n) == [tag |-> "Count", count |-> n]

\* The index of the first pair of list whose coordinate is c, 0 when none.
FirstIndexOf(list, c) ==
    IF \E i \in 1 .. Len(list) : list[i][2] = c
    THEN CHOOSE i \in 1 .. Len(list) :
            /\ list[i][2] = c
            /\ \A j \in 1 .. (i - 1) : list[j][2] # c
    ELSE 0

\* Vec::remove(i), i counted from 1.
RemoveAt(list, i) ==
    [j \in 1 .. (Len(list) - 1) |-> IF j < i THEN list[j] ELSE list[j + 1]]

\* SpeciesCache::remove. A list with no pair for coordinate is left as it is
\* (the loop ends without a match). `*count -= 1` is on a usize: at count 0
\* the build decides what happens; the model has the integer count - 1.
remove(entry, coordinate) ==
    IF entry.cache.tag = "Tracking"
    THEN LET i == FirstIndexOf(entry.cache.list, coordinate)
         IN  IF i = 0
             THEN entry
             ELSE [entry EXCEPT !.cache = Tracking(RemoveAt(entry.cache.list, i))]
    ELSE [entry EXCEPT !.cache = Count(entry.cache.count - 1)]

\* SpeciesCache::add with the increment of the counting arm left out.
add_without_increment(entry, coordinate) ==
    IF entry.cache.tag = "Tracking"
    THEN [entry EXCEPT
            !.cache = Tracking(Append(entry.cache.list, <<PlaceholderID, coordinate>>))]
    ELSE entry

\* SpeciesCache::add
add(entry, coordinate) ==
    IF entry.cache.tag = "Tracking"
    THEN [entry EXCEPT
            !.cache = Tracking(Append(entry.cache.list, <<PlaceholderID, coordinate>>))]
    ELSE [entry EXCEPT !.cache = Count(entry.cache.count + 1)]

\* SpeciesCache::move_to
move_to(entry, from, to) ==
    IF entry.cache.tag = "Tracking"
    THEN LET i == FirstIndexOf(entry.cache.list, from)
         IN  IF i = 0
             THEN entry
             ELSE [entry EXCEPT
                     !.cache = Tracking([entry.cache.list EXCEPT ![i] = <<@[1], to>>])]
    ELSE entry

----------------------------------------------------------------------------
\* Results

Ok(v) == [tag |-> "Ok", args |-> <<v>>]

OkUnit == [tag |-> "Ok", args |-> <<>>]

OutOfRange(c) == [tag |-> "OutOfRange", args |-> <<c>>]

ParticleNotFound(c) == [tag |-> "ParticleNotFound", args |-> <<c>>]

InvalidLocation(from, to) == [tag |-> "InvalidLocation", args |-> <<from, to>>]

\* Option<(&Species, Coordinate)>
FoundSome(species, coordinate) == [tag |-> "Some", args |-> <<species, coordinate>>]

FoundNone == [tag |-> "None", args |-> <<>>]

----------------------------------------------------------------------------
\* HCPLatticeSpace

\* new with the layer extent left out of the number of voxels.
new_without_layer(radius, sz) ==
    [voxel_radius |-> radius,
     size |-> sz,
     voxels |-> [c \in 0 .. (sz.row * sz.col - 1) |-> None],
     species_cache |-> <<>>]

\* new: the fields of the store it builds.
new(radius, sz) ==
    [voxel_radius |-> radius,
     size |-> sz,
     voxels |-> [c \in 0 .. (sz.row * sz.col * sz.layer - 1) |-> None],
     species_cache |-> <<>>]

\* get_voxel_radius
get_voxel_radius(radius) == radius

\* get_species_id_at
get_species_id_at(vx, coordinate) ==
    IF coordinate \in DOMAIN vx THEN Ok(vx[coordinate]) ELSE OutOfRange(coordinate)

\* A move of slot a into slot b that leaves a empty, in place of the swap.
swap_take(vx, a, b) == [vx EXCEPT ![b] = vx[a], ![a] = None]

\* <[T]>::swap
swap(vx, a, b) == [vx EXCEPT ![a] = vx[b], ![b] = vx[a]]

\* The Ok branch of move_particle with add called on to instead of from.
apply_move_add_to(vx, sc, from, to) ==
    LET from_species_id == vx[from]
        to_species_id == vx[to]
        sc1 == [sc EXCEPT ![from_species_id] = move_to(@, from, to)]
        sc2 == IF to_species_id # None
               THEN [sc1 EXCEPT ![to_species_id] = add(remove(@, to), to)]
               ELSE sc1
    IN  [voxels |-> swap(vx, from, to), species_cache |-> sc2, ret |-> OkUnit]

\* The index right after from_species_cache.move_to(from, to), which is the
\* index that remove and add then work on.
after_move_to(vx, sc, from, to) == [sc EXCEPT ![vx[from]] = move_to(@, from, to)]

\* The Ok branch of move_particle with remove and add run on every entry but
\* the mover's, whatever voxel to holds.
apply_move_every_entry(vx, sc, from, to) ==
    LET from_species_id == vx[from]
        sc1 == after_move_to(vx, sc, from, to)
        sc2 == [id \in DOMAIN sc1 |->
                    IF id = from_species_id
                    THEN sc1[id]
                    ELSE add(remove(sc1[id], to), from)]
    IN  [voxels |-> swap(vx, from, to), species_cache |-> sc2, ret |-> OkUnit]

\* The Ok branch of move_particle (the statements after the three checks).
apply_move(vx, sc, from, to) ==
    LET from_species_id == vx[from]
        to_species_id == vx[to]
        sc1 == after_move_to(vx, sc, from, to)
        sc2 == IF to_species_id # None
               THEN [sc1 EXCEPT ![to_species_id] = add(remove(@, to), from)]
               ELSE sc1
    IN  [voxels |-> swap(vx, from, to), species_cache |-> sc2, ret |-> OkUnit]

\* move_particle with move_to called before the substrate check.
move_particle_moves_first(vx, sc, from, to) ==
    LET unchanged(r) == [voxels |-> vx, species_cache |-> sc, ret |-> r]
        at_from == get_species_id_at(vx, from)
        at_to == get_species_id_at(vx, to)
    IN  IF at_from.tag # "Ok" THEN unchanged(at_from)
        ELSE IF at_from.args[1] = None THEN unchanged(ParticleNotFound(from))
        ELSE IF at_to.tag # "Ok" THEN unchanged(at_to)
        ELSE IF sc[at_from.args[1]].location # at_to.args[1]
             THEN [voxels |-> vx,
                   species_cache |->
                        [sc EXCEPT ![at_from.args[1]] = move_to(@, from, to)],
                   ret |-> InvalidLocation(from, to)]
        ELSE apply_move(vx, sc, from, to)

\* move_particle with a None destination accepted whatever the substrate.
move_particle_onto_none(vx, sc, from, to) ==
    LET unchanged(r) == [voxels |-> vx, species_cache |-> sc, ret |-> r]
        at_from == get_species_id_at(vx, from)
        at_to == get_species_id_at(vx, to)
    IN  IF at_from.tag # "Ok" THEN unchanged(at_from)
        ELSE IF at_from.args[1] = None THEN unchanged(ParticleNotFound(from))
        ELSE IF at_to.tag # "Ok" THEN unchanged(at_to)
        ELSE IF at_to.args[1] # None /\ sc[at_from.args[1]].location # at_to.args[1]
             THEN unchanged(InvalidLocation(from, to))
        ELSE apply_move(vx, sc, from, to)

\* move_particle with an out-of-range destination reported as InvalidLocation.
move_particle_to_invalid(vx, sc, from, to) ==
    LET unchanged(r) == [voxels |-> vx, species_cache |-> sc, ret |-> r]
        at_from == get_species_id_at(vx, from)
        at_to == get_species_id_at(vx, to)
    IN  IF at_from.tag # "Ok" THEN unchanged(at_from)
        ELSE IF at_from.args[1] = None THEN unchanged(ParticleNotFound(from))
        ELSE IF at_to.tag # "Ok" THEN unchanged(InvalidLocation(from, to))
        ELSE IF sc[at_from.args[1]].location # at_to.args[1]
             THEN unchanged(InvalidLocation(from, to))
        ELSE apply_move(vx, sc, from, to)

\* move_particle with both coordinates looked up before the occupant of from
\* is unwrapped.
move_particle_lookups_first(vx, sc, from, to) ==
    LET unchanged(r) == [voxels |-> vx, species_cache |-> sc, ret |-> r]
        at_from == get_species_id_at(vx, from)
        at_to == get_species_id_at(vx, to)
    IN  IF at_from.tag # "Ok" THEN unchanged(at_from)
        ELSE IF at_to.tag # "Ok" THEN unchanged(at_to)
        ELSE IF at_from.args[1] = None THEN unchanged(ParticleNotFound(from))
        ELSE IF sc[at_from.args[1]].location # at_to.args[1]
             THEN unchanged(InvalidLocation(from, to))
        ELSE apply_move(vx, sc, from, to)

\* move_particle with the destination looked up before the source.
move_particle_to_first(vx, sc, from, to) ==
    LET unchanged(r) == [voxels |-> vx, species_cache |-> sc, ret |-> r]
        at_from == get_species_id_at(vx, from)
        at_to == get_species_id_at(vx, to)
    IN  IF at_to.tag # "Ok" THEN unchanged(at_to)
        ELSE IF at_from.tag # "Ok" THEN unchanged(at_from)
        ELSE IF at_from.args[1] = None THEN unchanged(ParticleNotFound(from))
        ELSE IF sc[at_from.args[1]].location # at_to.args[1]
             THEN unchanged(InvalidLocation(from, to))
        ELSE apply_move(vx, sc, from, to)

\* move_particle with a move from an unoccupied voxel onto an unoccupied
\* voxel taken as a move of nothing: the slots are swapped and Ok returned.
move_particle_of_nothing(vx, sc, from, to) ==
    LET unchanged(r) == [voxels |-> vx, species_cache |-> sc, ret |-> r]
        at_from == get_species_id_at(vx, from)
        at_to == get_species_id_at(vx, to)
    IN  IF at_from.tag # "Ok" THEN unchanged(at_from)
        ELSE IF at_to.tag # "Ok" THEN unchanged(at_to)
        ELSE IF at_from.args[1] = None
             THEN IF at_to.args[1] = None
                  THEN [voxels |-> swap(vx, from, to), species_cache |-> sc,
                        ret |-> OkUnit]
                  ELSE unchanged(ParticleNotFound(from))
        ELSE IF sc[at_from.args[1]].location # at_to.args[1]
             THEN unchanged(InvalidLocation(from, to))
        ELSE apply_move(vx, sc, from, to)

\* move_particle: the store and the result it leaves.
move_particle(vx, sc, from, to) ==
    LET unchanged(r) == [voxels |-> vx, species_cache |-> sc, ret |-> r]
        at_from == get_species_id_at(vx, from)
        at_to == get_species_id_at(vx, to)
    IN  IF at_from.tag # "Ok" THEN unchanged(at_from)
        ELSE IF at_from.args[1] = None THEN unchanged(ParticleNotFound(from))
        ELSE IF at_to.tag # "Ok" THEN unchanged(at_to)
        ELSE IF sc[at_from.args[1]].location # at_to.args[1]
             THEN unchanged(InvalidLocation(from, to))
        ELSE apply_move(vx, sc, from, to)

\* The inner loop of find_particle without its early return: the last pair
\* of list, from index i on, whose identity is pid.
RECURSIVE find_in_list_last(_, _, _, _)
find_in_list_last(species, list, i, pid) ==
    IF i > Len(list) THEN FoundNone
    ELSE LET later == find_in_list_last(species, list, i + 1, pid)
         IN  IF later.tag = "Some" THEN later
             ELSE IF list[i][1] = pid THEN FoundSome(species, list[i][2])
             ELSE FoundNone

\* The inner loop of find_particle: the first pair of list, from index i on,
\* whose identity is pid.
RECURSIVE find_in_list(_, _, _, _)
find_in_list(species, list, i, pid) ==
    IF i > Len(list) THEN FoundNone
    ELSE IF list[i][1] = pid THEN FoundSome(species, list[i][2])
    ELSE find_in_list(species, list, i + 1, pid)

\* find_particle: the outer loop over species_cache, from index id on.
RECURSIVE find_from(_, _, _)
find_from(sc, id, pid) ==
    IF id \notin DOMAIN sc THEN FoundNone
    ELSE LET r == IF sc[id].cache.tag = "Tracking"
                  THEN find_in_list(sc[id].species, sc[id].cache.list, 1, pid)
                  ELSE FoundNone
         IN  IF r.tag = "Some" THEN r ELSE find_from(sc, id + 1, pid)

\* find_particle
find_particle(sc, pid) == find_from(sc, 0, pid)

----------------------------------------------------------------------------
\* The stores the model starts from: every store with at most MaxSpecies
\* species in which the array and the index agree.

\* The coordinates, ascending from c on, at which vx holds species id, each
\* paired with its identity.
RECURSIVE pairs_of(_, _, _)
pairs_of(vx, id, c) ==
    IF c >= num_voxels THEN <<>>
    ELSE IF vx[c] = id THEN <<<<InitialID(id, c), c>>>> \o pairs_of(vx, id, c + 1)
    ELSE pairs_of(vx, id, c + 1)

\* The index entry of species id that agrees with the array vx.
entry_for(vx, id, location, tracking) ==
    [species |-> Names[id + 1],
     location |-> location,
     cache |-> IF tracking
               THEN Tracking(pairs_of(vx, id, 0))
               ELSE Count(Cardinality({c \in Coordinates : vx[c] = id}))]

\* No successful move_particle comes right before the last call.
NoPrev == [call |-> [op |-> "none", args |-> <<>>],
           old |-> [voxels |-> <<>>, species_cache |-> <<>>]]

\* What prev becomes when a further call is made.
next_prev ==
    IF call.op = "move_particle" /\ ret.tag = "Ok"
    THEN [call |-> call, old |-> old]
    ELSE NoPrev

Init ==
    /\ voxel_radius = 1
    /\ size = [row |-> MaxRow, col |-> 1, layer |-> 1]
    /\ built = [voxel_radius |-> 1, size |-> [row |-> MaxRow, col |-> 1, layer |-> 1]]
    /\ \E n \in 0 .. MaxSpecies :
        \E vx \in [Coordinates -> {None} \cup (0 .. (n - 1))],
           location \in [0 .. (n - 1) -> {None} \cup (0 .. (n - 1))],
           tracking \in [0 .. (n - 1) -> BOOLEAN] :
            /\ voxels = vx
            /\ species_cache =
                 [id \in 0 .. (n - 1) |-> entry_for(vx, id, location[id], tracking[id])]
            /\ call = [op |-> "init", args |-> <<>>]
            /\ ret = OkUnit
            /\ old = [voxels |-> vx,
                      species_cache |->
                        [id \in 0 .. (n - 1) |->
                            entry_for(vx, id, location[id], tracking[id])]]
            /\ prev = NoPrev

\* move_particle(from, to) acts on the store; call, ret and old record it.
do_move_particle(from, to) ==
    LET r == move_particle(voxels, species_cache, from, to)
    IN  /\ voxels' = r.voxels
        /\ species_cache' = r.species_cache
        /\ call' = [op |-> "move_particle", args |-> <<from, to>>]
        /\ ret' = r.ret
        /\ old' = [voxels |-> voxels, species_cache |-> species_cache]

\* A caller calls move_particle(from, to).
MoveParticle ==
    \E from \in ArgCoordinates, to \in ArgCoordinates :
        /\ do_move_particle(from, to)
        /\ UNCHANGED <<voxel_radius, size, built, prev>>

\* A caller calls find_particle(pid).
FindParticle ==
    \E pid \in ArgParticleIDs :
        /\ call' = [op |-> "find_particle", args |-> <<pid>>]
        /\ ret' = find_particle(species_cache, pid)
        /\ old' = [voxels |-> voxels, species_cache |-> species_cache]
        /\ UNCHANGED <<voxel_radius, size, voxels, species_cache, built, prev>>

Next == MoveParticle \/ FindParticle

Spec == Init /\ [][Next]_vars

\* A caller calls move_particle(from, to), with coordinates up to the one that
\* follows the end of the array; the call before it is kept in prev when it
\* was a move_particle that returned Ok.
MoveParticleAgain ==
    \E from \in 0 .. num_voxels, to \in 0 .. num_voxels :
        /\ do_move_particle(from, to)
        /\ prev' = next_prev
        /\ UNCHANGED <<voxel_radius, size, built>>

NextMoves == MoveParticleAgain

\* Sequences of move_particle calls, each state knowing its last two calls.
SpecMoves == Init /\ [][NextMoves]_vars

\* The store is built by new(radius, sz).
InitNew ==
    \E radius \in Radii, sz \in Sizes :
        LET store == new(radius, sz)
        IN  /\ voxel_radius = store.voxel_radius
            /\ size = store.size
            /\ voxels = store.voxels
            /\ species_cache = store.species_cache
            /\ built = [voxel_radius |-> radius, size |-> sz]
            /\ call = [op |-> "new", args |-> <<radius, sz>>]
            /\ ret = OkUnit
            /\ old = [voxels |-> store.voxels, species_cache |-> store.species_cache]
            /\ prev = NoPrev

\* A caller calls get_voxel_radius().
GetVoxelRadius ==
    /\ call' = [op |-> "get_voxel_radius", args |-> <<>>]
    /\ ret' = Ok(get_voxel_radius(voxel_radius))
    /\ old' = [voxels |-> voxels, species_cache |-> species_cache]
    /\ UNCHANGED <<voxel_radius, size, voxels, species_cache, built, prev>>

NextNew == GetVoxelRadius \/ FindParticle \/ MoveParticle

\* The public operations on a store built by new.
SpecNew == InitNew /\ [][NextNew]_vars

\* The stores of Init with one pair dropped from one tracking list: the index
\* no longer agrees with the array.
InitCorrupt ==
    /\ voxel_radius = 1
    /\ size = [row |-> MaxRow, col |-> 1, layer |-> 1]
    /\ built = [voxel_radius |-> 1, size |-> [row |-> MaxRow, col |-> 1, layer |-> 1]]
    /\ \E n \in 1 .. MaxSpecies :
        \E vx \in [Coordinates -> {None} \cup (0 .. (n - 1))],
           location \in [0 .. (n - 1) -> {None} \cup (0 .. (n - 1))],
           tracking \in [0 .. (n - 1) -> BOOLEAN],
           k \in 0 .. (n - 1), i \in 1 .. num_voxels :
            LET sc == [id \in 0 .. (n - 1) |->
                        entry_for(vx, id, location[id], tracking[id])]
            IN  /\ tracking[k]
                /\ i <= Len(sc[k].cache.list)
                /\ voxels = vx
                /\ species_cache =
                     [sc EXCEPT ![k].cache = Tracking(RemoveAt(sc[k].cache.list, i))]
                /\ call = [op |-> "init", args |-> <<>>]
                /\ ret = OkUnit
                /\ old = [voxels |-> voxels, species_cache |-> species_cache]
                /\ prev = NoPrev

NextCorrupt == MoveParticle

\* move_particle calls on a store whose index has lost a pair.
SpecCorrupt == InitCorrupt /\ [][NextCorrupt]_vars

----------------------------------------------------------------------------
\* What the properties below speak of.

\* The last call was move_particle(from, to).
Moved == call.op = "move_particle"

from_arg == call.args[1]

to_arg == call.args[2]

\* The last call left the array and the whole index as they were.
StoreUnchanged == voxels = old.voxels /\ species_cache = old.species_cache

\* The number of pairs of list whose coordinate is c.
PairsAt(list, c) == Cardinality({i \in 1 .. Len(list) : list[i][2] = c})

\* The array vx and the index sc agree: voxels hold None or a known species;
\* a tracking list has exactly one pair for each voxel of its species and no
\* other pair; a count is the number of voxels of its species.
Consistent(vx, sc) ==
    /\ \A c \in DOMAIN vx : vx[c] = None \/ vx[c] \in DOMAIN sc
    /\ \A id \in DOMAIN sc :
        IF sc[id].cache.tag = "Tracking"
        THEN /\ \A i \in 1 .. Len(sc[id].cache.list) :
                    sc[id].cache.list[i][2] \in DOMAIN vx
             /\ \A c \in DOMAIN vx :
                    PairsAt(sc[id].cache.list, c) = IF vx[c] = id THEN 1 ELSE 0
        ELSE sc[id].cache.count = Cardinality({c \in DOMAIN vx : vx[c] = id})

\* No coordinate appears twice across all the tracking lists of sc.
NoSharedCoordinate(vx, sc) ==
    \A c \in DOMAIN vx :
        Cardinality({<<id, i>> \in (DOMAIN sc) \X (1 .. num_voxels + 1) :
                        /\ sc[id].cache.tag = "Tracking"
                        /\ i <= Len(sc[id].cache.list)
                        /\ sc[id].cache.list[i][2] = c}) <= 1

----------------------------------------------------------------------------
\* C1: from any store in which array and index agree, after any sequence of
\* move_particle calls the array and the index still agree: a voxel holds
\* species s exactly when s's tracking list has exactly one pair with that
\* coordinate (tracking), a count equals the number of voxels of its species
\* (counting), and no coordinate appears twice across the tracking lists.
C1_ConsistencyPreserved ==
    /\ Consistent(voxels, species_cache)
    /\ NoSharedCoordinate(voxels, species_cache)

\* A move of a tracked particle onto a voxel of a tracked substrate species
\* has succeeded.
C1_Witness ==
    /\ Moved /\ ret.tag = "Ok" /\ from_arg # to_arg
    /\ old.voxels[to_arg] # None
    /\ old.voxels[to_arg] # old.voxels[from_arg]
    /\ species_cache[old.voxels[from_arg]].cache.tag = "Tracking"
    /\ species_cache[old.voxels[to_arg]].cache.tag = "Tracking"

\* C2: when move_particle returns an error (OutOfRange, ParticleNotFound or
\* InvalidLocation) the voxel array and every index entry are exactly what
\* they were before the call.
C2_ErrorLeavesStore ==
    (Moved /\ ret.tag # "Ok") => StoreUnchanged

\* A move of a tracked particle was refused with InvalidLocation.
C2_Witness ==
    /\ Moved /\ ret.tag = "InvalidLocation"
    /\ old.species_cache[old.voxels[from_arg]].cache.tag = "Tracking"

\* C3: for in-range from and to with from occupied by species A,
\* move_particle succeeds exactly when the raw content of voxel to equals A's
\* required substrate, None included as a value like any other; otherwise it
\* returns InvalidLocation(from, to) and leaves the store unchanged.
C3_SubstrateMatch ==
    (/\ Moved
     /\ from_arg \in Coordinates /\ to_arg \in Coordinates
     /\ old.voxels[from_arg] # None)
    => LET location == old.species_cache[old.voxels[from_arg]].location
       IN  /\ (ret.tag = "Ok") <=> (old.voxels[to_arg] = location)
           /\ ret.tag # "Ok" =>
                (ret = InvalidLocation(from_arg, to_arg) /\ StoreUnchanged)
           /\ (location = None /\ ret.tag = "Ok") => old.voxels[to_arg] = None
           /\ (location # None /\ old.voxels[to_arg] = None) => ret.tag # "Ok"

\* A species whose required substrate is None has moved onto a None voxel.
C3_Witness ==
    /\ Moved /\ ret.tag = "Ok" /\ from_arg # to_arg
    /\ old.voxels[to_arg] = None
    /\ old.species_cache[old.voxels[from_arg]].location = None

\* C4 as stated: move_particle returns OutOfRange, without mutating the
\* store, whenever from or to is a coordinate >= row*col*layer.
C4_AnyOutOfRange ==
    (Moved /\ (from_arg \notin Coordinates \/ to_arg \notin Coordinates))
    => (ret.tag = "OutOfRange" /\ StoreUnchanged)

\* C4 as amended: move_particle returns OutOfRange, without mutating the
\* store, whenever from is out of range, and whenever to is out of range and
\* from is in range and occupied; with from in range and unoccupied and to
\* out of range it returns ParticleNotFound, the store again unchanged.
C4_OutOfRange ==
    (Moved /\ (from_arg \notin Coordinates \/ to_arg \notin Coordinates))
    => /\ StoreUnchanged
       /\ IF from_arg \in Coordinates /\ old.voxels[from_arg] = None
          THEN ret.tag = "ParticleNotFound"
          ELSE ret.tag = "OutOfRange"

\* A move from an occupied voxel to a coordinate past the array was refused.
C4_Witness ==
    /\ Moved /\ ret.tag = "OutOfRange"
    /\ from_arg \in Coordinates /\ old.voxels[from_arg] # None
    /\ to_arg \notin Coordinates

\* C5: move_particle(from, to) with from in range and voxel from holding None
\* returns ParticleNotFound(from), whatever to is, and leaves the store
\* unchanged.
C5_ParticleNotFound ==
    (Moved /\ from_arg \in Coordinates /\ old.voxels[from_arg] = None)
    => (ret = ParticleNotFound(from_arg) /\ StoreUnchanged)

\* A move from an unoccupied voxel to a coordinate past the array was refused.
C5_Witness ==
    /\ Moved /\ ret.tag = "ParticleNotFound"
    /\ to_arg \notin Coordinates

\* The number of voxels of vx that hold a species.
Occupied(vx) == Cardinality({c \in DOMAIN vx : vx[c] # None})

\* The lists a and b hold the same coordinates, each as often.
SameCoordinates(a, b) ==
    /\ Len(a) = Len(b)
    /\ \A c \in Coordinates : PairsAt(a, c) = PairsAt(b, c)

\* C6: after a successful move_particle(from, to) from a consistent store,
\* voxel to holds the mover's species, voxel from holds what voxel to held,
\* the mover's tracking list has its pair for from rewritten to to (the same
\* particle, now at to), a counting mover's count is unchanged, and the
\* substrate species has lost coordinate to and gained coordinate from, a
\* counting substrate's count being unchanged.
C6_MoveEffect ==
    (Moved /\ ret.tag = "Ok")
    => LET mover == old.voxels[from_arg]
           substrate == old.voxels[to_arg]
           before == old.species_cache[mover].cache
           after == species_cache[mover].cache
       IN  /\ voxels[to_arg] = mover
           /\ voxels[from_arg] = substrate
           /\ before.tag = "Tracking" =>
                \E i \in 1 .. Len(before.list) :
                    /\ before.list[i][2] = from_arg
                    /\ \E j \in 1 .. Len(after.list) :
                            after.list[j] = <<before.list[i][1], to_arg>>
           /\ before.tag = "Count" => after.count = before.count
           /\ substrate # None =>
                IF species_cache[substrate].cache.tag = "Tracking"
                THEN /\ PairsAt(species_cache[substrate].cache.list, from_arg) = 1
                     /\ substrate # mover =>
                            PairsAt(species_cache[substrate].cache.list, to_arg) = 0
                ELSE species_cache[substrate].cache.count
                        = old.species_cache[substrate].cache.count

\* C7: for in-range from and to, the number of occupied voxels is the same
\* before and after move_particle(from, to), whether it succeeds or fails.
C7_OccupancyPreserved ==
    (Moved /\ from_arg \in Coordinates /\ to_arg \in Coordinates)
    => Occupied(voxels) = Occupied(old.voxels)

\* A particle has moved onto a voxel that held its substrate species.
C7_Witness ==
    /\ Moved /\ ret.tag = "Ok" /\ from_arg # to_arg
    /\ old.voxels[to_arg] # None
    /\ voxels # old.voxels

\* C8: when move_particle(a, b) succeeds and the move_particle(b, a) that
\* follows succeeds too, the voxel array and the coordinates held in every
\* tracking list are what they were before the first move.
C8_RoundTrip ==
    (/\ Moved /\ ret.tag = "Ok"
     /\ prev.call.op = "move_particle"
     /\ prev.call.args = <<to_arg, from_arg>>)
    => /\ voxels = prev.old.voxels
       /\ \A id \in DOMAIN species_cache :
            species_cache[id].cache.tag = "Tracking" =>
                SameCoordinates(species_cache[id].cache.list,
                                prev.old.species_cache[id].cache.list)

\* A tracked particle has moved onto a voxel of a tracked substrate species
\* and back.
C8_Witness ==
    /\ Moved /\ ret.tag = "Ok" /\ from_arg # to_arg
    /\ prev.call.op = "move_particle"
    /\ prev.call.args = <<to_arg, from_arg>>
    /\ old.voxels[to_arg] # None
    /\ old.voxels[to_arg] # old.voxels[from_arg]
    /\ species_cache[old.voxels[from_arg]].cache.tag = "Tracking"
    /\ species_cache[old.voxels[to_arg]].cache.tag = "Tracking"

\* C9: move_particle(c, c) on an in-range occupied c behaves in one way for
\* every coordinate and every species configuration: it is always rejected,
\* or it always succeeds and then leaves the array and the whole index (pairs
\* with their identities and order, counts) unchanged. Stated of the store a
\* move_particle(c, c) was just called on: over all occupied coordinates of
\* that store the call is rejected, or over all of them it succeeds and
\* changes nothing.
C9_SelfMoveOneWay ==
    (/\ Moved /\ from_arg = to_arg
     /\ from_arg \in Coordinates
     /\ old.voxels[from_arg] # None)
    => LET occupied == {c \in Coordinates : old.voxels[c] # None}
           r(c) == move_particle(old.voxels, old.species_cache, c, c)
       IN  \/ ret.tag # "Ok" /\ \A c \in occupied : r(c).ret.tag # "Ok"
           \/ /\ ret.tag = "Ok" /\ StoreUnchanged
              /\ \A c \in occupied :
                    /\ r(c).ret.tag = "Ok"
                    /\ r(c).voxels = old.voxels
                    /\ r(c).species_cache = old.species_cache

\* The places <<id, i>> of the pairs of tracking lists whose identity is pid.
Matches(sc, pid) ==
    {m \in (DOMAIN sc) \X (1 .. num_voxels) :
        /\ sc[m[1]].cache.tag = "Tracking"
        /\ m[2] <= Len(sc[m[1]].cache.list)
        /\ sc[m[1]].cache.list[m[2]][1] = pid}

\* The first of the places M: lowest species id, then lowest list index.
FirstMatch(M) ==
    CHOOSE m \in M :
        \A o \in M : m[1] < o[1] \/ (m[1] = o[1] /\ m[2] <= o[2])

\* C10: find_particle(pid) returns the species name and the coordinate of
\* the first pair, in species-id order and then list order, of a tracking
\* list whose identity is pid, and None when no tracking list has such a
\* pair; counting entries never give a result; the store is unchanged.
C10_FindParticle ==
    call.op = "find_particle"
    => /\ StoreUnchanged
       /\ LET M == Matches(species_cache, call.args[1])
          IN  IF M = {}
              THEN ret = FoundNone
              ELSE LET m == FirstMatch(M)
                   IN  ret = FoundSome(species_cache[m[1]].species,
                                       species_cache[m[1]].cache.list[m[2]][2])

\* find_particle has answered for an identity that two pairs carry, in a
\* store that also has a counting entry.
C10_Witness ==
    /\ call.op = "find_particle" /\ ret.tag = "Some"
    /\ Cardinality(Matches(species_cache, call.args[1])) >= 2
    /\ \E id \in DOMAIN species_cache : species_cache[id].cache.tag = "Count"

\* C11: a store built by new(voxel_radius, size) has exactly row*col*layer
\* voxels, all None, and an empty species index; in every later state
\* get_voxel_radius returns the radius given to new, and the number of voxels
\* is still row*col*layer.
C11_NewStore ==
    /\ DOMAIN voxels = 0 .. (built.size.row * built.size.col * built.size.layer - 1)
    /\ call.op = "new" =>
            /\ \A c \in DOMAIN voxels : voxels[c] = None
            /\ DOMAIN species_cache = {}
    /\ call.op = "get_voxel_radius" => ret = Ok(built.voxel_radius)

\* get_voxel_radius has answered on a store of six voxels built with
\* radius 5.
C11_Witness ==
    /\ call.op = "get_voxel_radius"
    /\ ret = Ok(5)
    /\ built.size.row * built.size.col * built.size.layer = 6
    /\ Cardinality(DOMAIN voxels) = 6

\* The last call was a move_particle whose checks all passed: from and to in
\* range, from occupied, voxel to holding the mover's required substrate.
ChecksPassed ==
    /\ Moved
    /\ from_arg \in DOMAIN old.voxels /\ to_arg \in DOMAIN old.voxels
    /\ old.voxels[from_arg] # None
    /\ old.species_cache[old.voxels[from_arg]].location = old.voxels[to_arg]

\* The index entry that remove(to) was applied to in the last call: the
\* entry of the species at to, after the mover's move_to.
EntryAtRemove ==
    after_move_to(old.voxels, old.species_cache, from_arg, to_arg)[old.voxels[to_arg]]

\* C12: during a successful move_particle from a consistent store, when
\* remove(to) is applied to a tracking entry, at most one pair of that entry's
\* list has coordinate to at that moment, also when the mover's species is
\* its own required substrate.
C12_RemoveSeesOnePair ==
    (/\ Moved /\ ret.tag = "Ok"
     /\ old.voxels[to_arg] # None
     /\ EntryAtRemove.cache.tag = "Tracking")
    => PairsAt(EntryAtRemove.cache.list, to_arg) <= 1

\* C13: when move_particle is applied to a store whose index is already
\* inconsistent, so that a tracking list has no pair for the coordinate moved
\* from or for the coordinate removed, the call fails loudly (a panic) and
\* does not return Ok.
C13_MissingPairPanics ==
    (/\ ChecksPassed
     /\ \/ /\ old.species_cache[old.voxels[from_arg]].cache.tag = "Tracking"
            /\ PairsAt(old.species_cache[old.voxels[from_arg]].cache.list, from_arg) = 0
        \/ /\ old.voxels[to_arg] # None
            /\ EntryAtRemove.cache.tag = "Tracking"
            /\ PairsAt(EntryAtRemove.cache.list, to_arg) = 0)
    => ret.tag = "Panic"

\* C14: in every store reached from a consistent store by move_particle
\* calls, the decrement of a counting entry in remove is never applied to a
\* count of 0 (a counting species at the destination of a successful move has
\* count >= 1 before the decrement), and every count is within
\* [0, number of voxels].
C14_CountNeverUnderflows ==
    /\ \A id \in DOMAIN species_cache :
            species_cache[id].cache.tag = "Count" =>
                (species_cache[id].cache.count >= 0
                    /\ species_cache[id].cache.count <= num_voxels)
    /\ (/\ Moved /\ ret.tag = "Ok"
        /\ old.voxels[to_arg] # None
        /\ EntryAtRemove.cache.tag = "Count")
       => EntryAtRemove.cache.count >= 1

\* A particle has moved onto the only voxel of a counting substrate species.
C14_Witness ==
    /\ Moved /\ ret.tag = "Ok" /\ from_arg # to_arg
    /\ old.voxels[to_arg] # None
    /\ EntryAtRemove.cache.tag = "Count"
    /\ EntryAtRemove.cache.count = 1
    /\ species_cache[old.voxels[to_arg]].cache.count = 1

\* What the checks of move_particle(from, to), taken in order, give on the
\* array vx and the index sc.
FirstFailure(vx, sc, from, to) ==
    IF from \notin DOMAIN vx THEN OutOfRange(from)
    ELSE IF vx[from] = None THEN ParticleNotFound(from)
    ELSE IF to \notin DOMAIN vx THEN OutOfRange(to)
    ELSE IF sc[vx[from]].location # vx[to] THEN InvalidLocation(from, to)
    ELSE OkUnit

\* C15: the checks of move_particle(from, to) run in a fixed order and the
\* first that fails decides the error and its payload: from out of range
\* gives OutOfRange(from); else from unoccupied gives ParticleNotFound(from);
\* else to out of range gives OutOfRange(to); else a substrate mismatch gives
\* InvalidLocation(from, to); only when all pass is the store changed.
C15_CheckOrder ==
    Moved =>
        /\ ret = FirstFailure(old.voxels, old.species_cache, from_arg, to_arg)
        /\ ~StoreUnchanged => ret.tag = "Ok"

\* Both coordinates were out of range, and different: OutOfRange names from.
C15_Witness ==
    /\ Moved
    /\ from_arg \notin Coordinates /\ to_arg \notin Coordinates
    /\ from_arg # to_arg
    /\ ret = OutOfRange(from_arg)

\* No two pairs of the tracking lists of sc carry the same identity.
UniqueIDs(sc) ==
    \A m, o \in (DOMAIN sc) \X (1 .. num_voxels) :
        (/\ sc[m[1]].cache.tag = "Tracking" /\ m[2] <= Len(sc[m[1]].cache.list)
         /\ sc[o[1]].cache.tag = "Tracking" /\ o[2] <= Len(sc[o[1]].cache.list)
         /\ sc[m[1]].cache.list[m[2]][1] = sc[o[1]].cache.list[o[2]][1])
        => m = o

\* C16: for a tracking mover whose particle identities are unique, a
\* successful move_particle(from, to) keeps the moved particle's identity:
\* the pair that had coordinate from is present afterwards with the same
\* ParticleID and coordinate to, and find_particle of that identity returns
\* the mover's species and to; for every substrate configuration, a species
\* that is its own required substrate included.
C16_MoverKeepsIdentity ==
    (/\ Moved /\ ret.tag = "Ok"
     /\ old.species_cache[old.voxels[from_arg]].cache.tag = "Tracking"
     /\ UniqueIDs(old.species_cache))
    => LET mover == old.voxels[from_arg]
           before == old.species_cache[mover].cache.list
           after == species_cache[mover].cache.list
       IN  \A i \in 1 .. Len(before) :
                before[i][2] = from_arg =>
                    /\ \E j \in 1 .. Len(after) : after[j] = <<before[i][1], to_arg>>
                    /\ find_particle(species_cache, before[i][1])
                            = FoundSome(species_cache[mover].species, to_arg)

\* The number of pairs of list whose identity is pid.
PairsOf(list, pid) == Cardinality({i \in 1 .. Len(list) : list[i][1] = pid})

\* The lists a and b hold the same identities, each as often.
SameIDs(a, b) ==
    /\ Len(a) = Len(b)
    /\ \A i \in 1 .. Len(a) : PairsOf(a, a[i][1]) = PairsOf(b, a[i][1])

\* C17: a successful move_particle creates and loses no particle identity:
\* each species' tracking list holds the same multiset of ParticleIDs before
\* and after, also when the displaced substrate species is tracking.
C17_IdentitiesPreserved ==
    (Moved /\ ret.tag = "Ok")
    => \A id \in DOMAIN species_cache :
            species_cache[id].cache.tag = "Tracking" =>
                SameIDs(old.species_cache[id].cache.list, species_cache[id].cache.list)

\* C18: a successful move_particle(from, to) changes only voxels from and to
\* and only the index entries of the mover's species and of the species found
\* at to; every other voxel and entry, and every entry's species name and
\* required substrate, are unchanged; the number of entries and the tracking
\* mode of each entry never change.
C18_Frame ==
    /\ DOMAIN species_cache = DOMAIN old.species_cache
    /\ \A id \in DOMAIN species_cache :
            /\ species_cache[id].species = old.species_cache[id].species
            /\ species_cache[id].location = old.species_cache[id].location
            /\ species_cache[id].cache.tag = old.species_cache[id].cache.tag
    /\ (Moved /\ ret.tag = "Ok") =>
            /\ \A c \in Coordinates \ {from_arg, to_arg} : voxels[c] = old.voxels[c]
            /\ \A id \in DOMAIN species_cache \ {old.voxels[from_arg], old.voxels[to_arg]} :
                    species_cache[id] = old.species_cache[id]

\* A particle has moved onto a None voxel while a third voxel holds a
\* particle of another species.
C18_Witness ==
    /\ Moved /\ ret.tag = "Ok" /\ from_arg # to_arg
    /\ old.voxels[to_arg] = None
    /\ \E c \in Coordinates \ {from_arg, to_arg} :
            /\ voxels[c] # None
            /\ voxels[c] # old.voxels[from_arg]

\* C19: from a store built by new, under any number of calls of the public
\* operations (get_voxel_radius, find_particle, move_particle) in any order,
\* the store stays as new built it: all voxels None and the species index
\* empty; every move_particle returns OutOfRange or ParticleNotFound, never
\* Ok and never InvalidLocation; every find_particle returns None.
C19_NewStoreStaysEmpty ==
    /\ voxels = new(built.voxel_radius, built.size).voxels
    /\ \A c \in DOMAIN voxels : voxels[c] = None
    /\ DOMAIN species_cache = {}
    /\ Moved => ret.tag \in {"OutOfRange", "ParticleNotFound"}
    /\ call.op = "find_particle" => ret = FoundNone

\* On a store built by new with at least two voxels, a move between two
\* different in-range voxels was refused.
C19_Witness ==
    /\ Moved /\ ret.tag = "ParticleNotFound"
    /\ from_arg \in Coordinates /\ to_arg \in Coordinates
    /\ from_arg # to_arg

====
